---------------------------- MODULE Spec2Model ----------------------------
(***************************************************************************)
(* Model of the Discord scheduled-summary bot:                             *)
(*   - the gateway worker (class DiscordBot) in its keep-alive-alarm and   *)
(*     its backoff variant (worker-polling.js lines 556-1021, 1057-1433),  *)
(*   - the chunkers sendLongMessage / splitMessage,                        *)
(*   - the local bot's retention buffer (bot.js) and window selection      *)
(*     (scheduler.js).                                                     *)
(*                                                                         *)
(* Handlers are atomic up to their `await fetch(...)` suspension points;   *)
(* awaits on Durable Object storage do not let other events in.            *)
(***************************************************************************)
EXTENDS Integers, Sequences, FiniteSets, TLC

VARIABLES
  variant,            \* which DiscordBot class runs: "keepalive" | "backoff" | "none"
  now,                \* Date.now(), in ms since 00:00 UTC of day 0
  botEnabled,         \* this.botEnabled
  storedEnabled,      \* storage 'botEnabled'
  testMode,           \* this.testMode
  testSummarySent,    \* this.testSummarySent
  ws,                 \* this.ws: 0 = null, else the id of a WebSocket object
  sock,               \* readyState of every WebSocket object
  isConnecting,       \* this.isConnecting
  heartbeatInterval,  \* this.heartbeatInterval is armed
  reconnectAttempts,  \* this.reconnectAttempts
  reconnectTimeout,   \* this.reconnectTimeout: 0 = null, else a timer id
  timers,             \* setTimeout callbacks not yet fired nor cleared
  keepAliveAlarm,     \* this.keepAliveAlarm is truthy
  alarmAt,            \* the Durable Object's single alarm: NoAlarm or its time
  messageStore,       \* this.messageStore / bot.js messageStore
  storedMessages,     \* storage 'messages'
  pending,            \* connectToGateway calls suspended on the gateway-URL fetch
  lastDelay,          \* delay of the most recently armed reconnect timer
  hist,               \* observations: what has happened so far
  content,            \* chunker: the text handed in
  chunks,             \* chunker: the pieces handed to the delivery call, in order
  chunker,            \* chunker: which function produced `chunks`
  digest,             \* one digest run: its inputs, its requests and its report
  summaryTimeHour,    \* scheduleNextSummary alone: env.SUMMARY_TIME_HOUR as a number
  sequenceNumber,     \* frame handler: this.sequenceNumber
  sessionId,          \* frame handler: this.sessionId
  sent,               \* frame handler: the frames sent, with the transport used
  frames,             \* frame handler: observations on the frames handled so far
  calc                \* pruning and rendering alone: the buffer handed in, the results

vars == <<variant, now, botEnabled, storedEnabled, testMode, testSummarySent, ws,
          sock, isConnecting, heartbeatInterval, reconnectAttempts,
          reconnectTimeout, timers, keepAliveAlarm, alarmAt, messageStore,
          storedMessages, pending, lastDelay, hist, content, chunks, chunker,
          digest, summaryTimeHour, sequenceNumber, sessionId, sent, frames,
          calc>>

gatewayVars == <<variant, now, botEnabled, storedEnabled, testMode, testSummarySent,
                 ws, sock, isConnecting, heartbeatInterval, reconnectAttempts,
                 reconnectTimeout, timers, keepAliveAlarm, alarmAt, messageStore,
                 storedMessages, pending, lastDelay, hist>>

chunkVars == <<content, chunks, chunker>>

\* what no action of a gateway worker or of the local bot touches
frameVars == <<sequenceNumber, sessionId, sent, frames>>

asideVars == <<chunkVars, digest, summaryTimeHour, frameVars, calc>>

(***************************************************************************)
(* Strings.  A string is a run-length encoded sequence of <<char, count>>  *)
(* pairs in canonical form (no empty run, no two adjacent runs of the same *)
(* character), so that equality of encodings is equality of strings.       *)
(***************************************************************************)
CH  == "x"      \* any character that is neither whitespace nor '.'
SP  == "sp"     \* ' '
NL  == "nl"     \* '\n'
DOT == "dot"    \* '.'

EmptyStr == <<>>

RECURSIVE StrLen(_)
StrLen(s) == IF s = <<>> THEN 0 ELSE s[1][2] + StrLen(Tail(s))

RECURSIVE Norm(_)
Norm(s) ==
  IF s = <<>> THEN <<>>
  ELSE IF s[1][2] = 0 THEN Norm(Tail(s))
  ELSE LET r == Norm(Tail(s)) IN
       IF r # <<>> /\ r[1][1] = s[1][1]
       THEN << <<s[1][1], s[1][2] + r[1][2]>> >> \o Tail(r)
       ELSE << s[1] >> \o r

Cat(a, b) == Norm(a \o b)

\* s.substring(0, k)
RECURSIVE Substring0(_, _)
Substring0(s, k) ==
  IF s = <<>> \/ k <= 0 THEN <<>>
  ELSE IF s[1][2] <= k THEN << s[1] >> \o Substring0(Tail(s), k - s[1][2])
  ELSE << <<s[1][1], k>> >>

\* s.split('\n'): the lines of s, the text after the last newline included
RECURSIVE SplitFrom(_, _)
SplitFrom(s, cur) ==
  IF s = <<>> THEN << cur >>
  ELSE IF s[1][1] = NL
       THEN << cur >> \o SplitFrom(Norm(<< <<NL, s[1][2] - 1>> >> \o Tail(s)), <<>>)
       ELSE SplitFrom(Tail(s), cur \o << s[1] >>)

SplitLines(s) == SplitFrom(s, <<>>)

IsSpace(c) == c \in {SP, NL}

RECURSIVE TrimStart(_)
TrimStart(s) ==
  IF s = <<>> THEN <<>>
  ELSE IF IsSpace(s[1][1]) THEN TrimStart(Tail(s)) ELSE s

RECURSIVE TrimEnd(_)
TrimEnd(s) ==
  IF s = <<>> THEN <<>>
  ELSE IF IsSpace(s[Len(s)][1]) THEN TrimEnd(SubSeq(s, 1, Len(s) - 1)) ELSE s

\* s.trim()
Trim(s) == TrimEnd(TrimStart(s))

Newline  == << <<NL, 1>> >>
Ellipsis == << <<DOT, 3>> >>

(***************************************************************************)
(* Chunkers.                                                               *)
(***************************************************************************)
\* Discord's message ceiling: `const maxLength = 2000` / `maxLength = 2000`
MaxLength == 2000

\* line.substring(0, maxLength - 3) + '...'
Truncated(line, maxLength) == Cat(Substring0(line, maxLength - 3), Ellipsis)

\* DiscordBot.sendLongMessage and scheduler.js sendLongMessage (same text):
\* the loop over the lines; `out` collects the sendDiscordMessage calls.
RECURSIVE SendLongLoop(_, _, _, _)
SendLongLoop(lines, i, currentChunk, out) ==
  IF i > Len(lines)
  THEN IF currentChunk # EmptyStr THEN Append(out, currentChunk) ELSE out
  ELSE LET line == lines[i] IN
       IF StrLen(Cat(Cat(currentChunk, line), Newline)) > MaxLength
       THEN LET flushed == IF currentChunk # EmptyStr
                           THEN Append(out, currentChunk) ELSE out
            IN IF StrLen(line) > MaxLength
               THEN SendLongLoop(lines, i + 1, EmptyStr,
                      Append(flushed, Truncated(line, MaxLength)))
               ELSE SendLongLoop(lines, i + 1, Cat(line, Newline), flushed)
       ELSE SendLongLoop(lines, i + 1, Cat(Cat(currentChunk, line), Newline), out)

SendLongMessage(text) ==
  IF StrLen(text) <= MaxLength THEN << text >>
  ELSE SendLongLoop(SplitLines(text), 1, EmptyStr, <<>>)

\* splitMessage of the polling worker: the loop over the lines
RECURSIVE SplitLoop(_, _, _, _, _)
SplitLoop(lines, i, currentChunk, out, maxLength) ==
  IF i > Len(lines)
  THEN IF currentChunk # EmptyStr THEN Append(out, Trim(currentChunk)) ELSE out
  ELSE LET line == lines[i]
           safeLine == IF StrLen(line) > maxLength
                       THEN Truncated(line, maxLength)
                       ELSE line
       IN IF StrLen(Cat(Cat(currentChunk, Newline), safeLine)) > maxLength
          THEN SplitLoop(lines, i + 1, safeLine,
                 IF currentChunk # EmptyStr THEN Append(out, Trim(currentChunk)) ELSE out,
                 maxLength)
          ELSE SplitLoop(lines, i + 1,
                 Cat(Cat(currentChunk, IF currentChunk # EmptyStr THEN Newline ELSE EmptyStr),
                     safeLine),
                 out, maxLength)

SplitMessage(text, maxLength) ==
  IF StrLen(text) <= maxLength THEN << text >>
  ELSE SplitLoop(SplitLines(text), 1, EmptyStr, <<>>, maxLength)

(***************************************************************************)
(* Inputs of the chunkers: texts of up to MaxLines lines, each line of a   *)
(* length around the ceiling.                                              *)
(***************************************************************************)
MaxLines == 3

LineLengths == {0, 1, 1997, 1999, 2000, 2001}

LineOf(k) == IF k = 0 THEN EmptyStr ELSE << <<CH, k>> >>

RECURSIVE JoinLines(_)
JoinLines(ls) ==
  IF ls = <<>> THEN EmptyStr
  ELSE IF Len(ls) = 1 THEN ls[1]
  ELSE Cat(Cat(ls[1], Newline), JoinLines(Tail(ls)))

\* a line of length k that begins with a space, as a continuation line of a
\* message's content may
IndentedLineOf(k) == << <<SP, 1>>, <<CH, k - 1>> >>

\* the lines a text is made of
TextLines == {LineOf(k) : k \in LineLengths} \cup {IndentedLineOf(MaxLength + 1)}

TextOf(f) == JoinLines(f)

Texts == { TextOf(f) : f \in UNION { [1..m -> TextLines] : m \in 1..MaxLines } }

(***************************************************************************)
(* Time and configuration of the gateway worker.                           *)
(***************************************************************************)
HourMs      == 3600000
MinuteMs    == 60000
DayMs       == 24 * HourMs
KeepAliveMs == 30000     \* scheduleKeepAlive: Date.now() + 30000
TestDelayMs == 30000     \* /test: Date.now() + 30000
BaseDelayMs == 5000      \* backoff: 5000 * 2^(attempts-1)
MaxDelayMs  == 60000     \* backoff: Math.min(..., 60000)

CfgSummaryHour     == 9   \* env.SUMMARY_TIME_HOUR
CfgSummaryInterval == 24  \* env.SUMMARY_INTERVAL, in hours

\* parseInt(this.env.SUMMARY_TIME_HOUR) || 9
\* `parseInt(env.SUMMARY_TIME_HOUR) || 9`: 0 is falsy
ParsedHour(h) == IF h = 0 THEN 9 ELSE h

SummaryHour == ParsedHour(CfgSummaryHour)

IntervalMs == CfgSummaryInterval * 60 * 60 * 1000

UTCHours(t)   == (t % DayMs) \div HourMs
UTCMinutes(t) == (t % HourMs) \div MinuteMs
DayOf(t)      == t \div DayMs

\* scheduleNextSummary: the time the alarm is set to
\* scheduleNextSummary with SUMMARY_TIME_HOUR = h, called at time t
NextSummaryAt(h, t) ==
  LET next == (t - (t % DayMs)) + ParsedHour(h) * HourMs
  IN IF next <= t THEN next + DayMs ELSE next

NextSummary(t) == NextSummaryAt(CfgSummaryHour, t)

NoAlarm == 0 - 1

(***************************************************************************)
(* Bounds of the model.                                                    *)
(***************************************************************************)
MaxSockets  == 2   \* WebSocket objects alive at once
MaxPending  == 1   \* connectToGateway calls suspended at once
MaxTimers   == 2   \* reconnect timers pending at once
MaxAttempts == 6   \* cap of reconnectAttempts
MaxStore    == 1   \* events in the retention buffer
MaxMsgId    == 1   \* distinct message ids the gateway dispatches
MaxTicks    == 2   \* 30-second steps of the clock past the start of a day
MaxDays     == 1   \* 24-hour steps of the clock

\* the clock starts 30 seconds before the summary hour of day 0
StartTime == SummaryHour * HourMs - KeepAliveMs

Sockets  == 1..MaxSockets
TimerIds == 1..MaxTimers

\* readyState === WebSocket.OPEN.  The phases of an open transport:
\*   "open"            no frame handled yet
\*   "helloed"         its Hello handled, no identify sent on it
\*   "identifiedEarly" an identify sent on it, its own Hello not yet handled
\*   "identified"      its Hello handled and an identify sent on it
\*   "ready"           READY handled
IsOpen(s) == sock[s] \in {"open", "helloed", "identifiedEarly", "identified", "ready"}

Min(a, b) == IF a <= b THEN a ELSE b

RECURSIVE Pow2(_)
Pow2(n) == IF n <= 0 THEN 1 ELSE 2 * Pow2(n - 1)

\* a wrong delay, doubling once too often: C9 must tell it from the code's
BackoffDelayDoubledOnce(attempts) == Min(BaseDelayMs * Pow2(attempts), MaxDelayMs)

\* Math.min(5000 * Math.pow(2, this.reconnectAttempts - 1), 60000)
BackoffDelay(attempts) == Min(BaseDelayMs * Pow2(attempts - 1), MaxDelayMs)

\* messageStore.filter(msg => msg.timestamp >= cutoffTime)
RECURSIVE FilterRecent(_, _)
FilterRecent(store, cutoffTime) ==
  IF store = <<>> THEN <<>>
  ELSE IF store[1].timestamp >= cutoffTime
       THEN << store[1] >> \o FilterRecent(Tail(store), cutoffTime)
       ELSE FilterRecent(Tail(store), cutoffTime)

\* the data of a MESSAGE_CREATE dispatch: message.id, channel_id, author.bot
Dispatched(id, channel, bot) == [id |-> id, channel |-> channel, bot |-> bot]

NoDispatch == Dispatched(0, "none", FALSE)

HistInit ==
  [ stopped            |-> FALSE,    \* /stop completed, no /start or /test since
    lastSummary        |-> [at |-> NoAlarm, kind |-> "none", listed |-> <<>>],
                                     \* the last sendSummary call: when, from which
                                     \* trigger, and the events it selected
    testDue            |-> NoAlarm,  \* fire time of the alarm armed by /test,
                                     \* until a request or scheduleKeepAlive
                                     \* re-arms or deletes it
    failuresSinceReady |-> 0,        \* backoff variant: closes and failed
                                     \* attempts since the last READY
    failuresSinceOpen  |-> 0,        \* backoff variant: closes and failed
                                     \* attempts since the last 'open'
    recorded           |-> {},       \* local bot: every event ever recorded
    lastDispatch       |-> NoDispatch, \* local bot: the latest MESSAGE_CREATE
    delivered          |-> {} ]      \* the <<transport, message id>> of the
                                     \* MESSAGE_CREATE dispatches received

Sat(n) == Min(n + 1, MaxAttempts + 1)

\* null
Null == -1

\* undefined: what destructuring gives for a field the frame does not have
Absent == -2

\* no frame has been handled
NoFrames ==
  [ n       |-> 0,                                    \* frames handled
    last    |-> [op |-> Null, t |-> "none", s |-> Null, d |-> NoDispatch],
                                                      \* the latest of them
    ignored |-> 0,                                    \* unknown ones among them
    seq     |-> Null ]     \* the s of the latest frame that carried a number

\* no buffer has been handed in
NoCalc ==
  [ op       |-> "none",   \* "handed" | "filter" | "shift" | "render": the step
                           \* applied last
    n        |-> 0,        \* how many times the pruning step has been applied
    input    |-> <<>>,     \* the buffer handed in
    buf      |-> <<>>,     \* the buffer now
    once     |-> <<>>,     \* the buffer after the first application
    renderer |-> "none",   \* whose formatSummary has rendered the input
    lines    |-> <<>>,     \* the events of the lines of the digest, in their order
    footer   |-> [count |-> Null, noun |-> "none"],   \* its `_Total: ..._` line
    text     |-> <<>>,     \* the msg.content a line has been rendered of
    display  |-> <<>> ]    \* what the line shows for it

\* no digest run has begun
NoDigest ==
  [ entry    |-> "none",   \* which sendSummary / generateAndSendSummary runs
    token    |-> TRUE,     \* DISCORD_TOKEN is set
    channel  |-> TRUE,     \* CHANNEL_ID is set
    user     |-> TRUE,     \* USER_ID is set
    inWindow |-> 0,        \* number of events the window filter keeps
    nChunks  |-> 0,        \* number of pieces the summary is delivered in
    pc       |-> "idle",   \* the await the run is suspended on, or "done"
    k        |-> 0,        \* the piece the next post carries
    dm       |-> FALSE,    \* dmChannel.id is defined
    requests |-> <<>>,     \* every outbound request made, with its outcome
    report   |-> "none",   \* what the run tells its caller and its log
    cause    |-> "none" ]  \* the message of the error, if any

\* the constructor
InitFields(v, t, h) ==
  /\ variant = v
  /\ now = t
  /\ botEnabled = FALSE
  /\ storedEnabled = FALSE
  /\ testMode = FALSE
  /\ testSummarySent = FALSE
  /\ ws = 0
  /\ sock = [s \in Sockets |-> "closed"]
  /\ isConnecting = FALSE
  /\ heartbeatInterval = FALSE
  /\ reconnectAttempts = 0
  /\ reconnectTimeout = 0
  /\ timers = {}
  /\ keepAliveAlarm = FALSE
  /\ alarmAt = NoAlarm
  /\ messageStore = <<>>
  /\ storedMessages = <<>>
  /\ pending = <<>>
  /\ lastDelay = 0
  /\ hist = HistInit
  /\ digest = NoDigest
  /\ summaryTimeHour = h
  /\ sequenceNumber = Null
  /\ sessionId = Null
  /\ sent = <<>>
  /\ frames = NoFrames
  /\ calc = NoCalc

InitGateway(v) == InitFields(v, StartTime, CfgSummaryHour)

\* a text is handed to a chunker
InitChunk ==
  /\ InitGateway("none")
  /\ content \in Texts
  /\ chunks = <<>>
  /\ chunker = "none"

\* no chunker runs in the gateway specifications
InitNoChunk ==
  /\ content = EmptyStr
  /\ chunks = <<>>
  /\ chunker = "none"

(***************************************************************************)
(* The chunkers as a system: the text is handed to one of them.            *)
(***************************************************************************)
DoSendLongMessage ==
  /\ chunker = "none"
  /\ chunks' = SendLongMessage(content)
  /\ chunker' = "sendLongMessage"
  /\ UNCHANGED content
  /\ UNCHANGED <<gatewayVars, digest, summaryTimeHour, frameVars, calc>>

DoSplitMessage ==
  /\ chunker = "none"
  /\ chunks' = SplitMessage(content, MaxLength)
  /\ chunker' = "splitMessage"
  /\ UNCHANGED content
  /\ UNCHANGED <<gatewayVars, digest, summaryTimeHour, frameVars, calc>>

NextChunk ==
  \/ DoSendLongMessage
  \/ DoSplitMessage

SpecChunk == InitChunk /\ [][NextChunk]_vars

(***************************************************************************)
(* The gateway worker: pieces shared by the handlers.                      *)
(***************************************************************************)
\* the WebSocket slot `new WebSocket(...)` takes: a closed one, whose handlers
\* can no longer run
FreeSocket == CHOOSE s \in Sockets : sock[s] = "closed" /\ \A r \in Sockets : sock[r] = "closed" => s <= r

\* the id setTimeout returns, given the timers still pending
FreeTimer(live) == CHOOSE t \in TimerIds : t \notin live /\ \A r \in TimerIds : r \notin live => t <= r

\* this.ws.close() on a stale reference: the close event is delivered later
StaleClosed ==
  IF ws # 0 /\ sock[ws] # "closed" THEN [sock EXCEPT ![ws] = "closing"] ELSE sock

\* sendSummary, recorded: storage is read into this.messageStore, the window
\* is selected, and a digest is rendered and delivered when it is not empty
Summarised(h, kind) ==
  [h EXCEPT !.lastSummary = [at |-> now, kind |-> kind,
                             listed |-> FilterRecent(storedMessages, now - IntervalMs)]]

\* what the caller of connectToGateway does once the call has returned;
\* h is the history so far
Rearmed(h) == [h EXCEPT !.testDue = NoAlarm]

AfterConnect(caller, h) ==
  CASE caller = "start" ->
         \* scheduleKeepAlive; setAlarm's result may or may not be truthy
         /\ alarmAt' = now + KeepAliveMs
         /\ keepAliveAlarm' \in BOOLEAN
         /\ hist' = Rearmed(h)
         /\ UNCHANGED messageStore
    [] caller = "test" ->
         /\ alarmAt' = now + TestDelayMs
         /\ hist' = [h EXCEPT !.testDue = now + TestDelayMs]
         /\ UNCHANGED <<keepAliveAlarm, messageStore>>
    [] caller = "alarm" ->
         \* the summary-hour check, then scheduleKeepAlive
         /\ IF UTCHours(now) = SummaryHour /\ UTCMinutes(now) < 1
            THEN /\ messageStore' = storedMessages
                 /\ hist' = Summarised(Rearmed(h), "hour")
            ELSE /\ hist' = Rearmed(h)
                 /\ UNCHANGED messageStore
         /\ alarmAt' = now + KeepAliveMs
         /\ keepAliveAlarm' \in BOOLEAN
    [] OTHER ->
         /\ hist' = h
         /\ UNCHANGED <<alarmAt, keepAliveAlarm, messageStore>>

\* the guards of connectToGateway, keep-alive variant, botEnabled being true:
\* "Already connected" and "Connection attempt already in progress"
ConnectReturnsKA == (ws # 0 /\ IsOpen(ws)) \/ isConnecting

\* the guards of connectToGateway, backoff variant
ConnectReturnsBO == ws # 0 \/ isConnecting

\* connectToGateway of the keep-alive variant up to its fetch, botEnabled
\* being true: it returns at once (and the caller goes on), or it closes the
\* stale transport, sets isConnecting and suspends
ConnectKA(caller, h, armed) ==
  IF ConnectReturnsKA
  THEN /\ AfterConnect(caller, h)
       /\ UNCHANGED <<ws, sock, isConnecting, pending>>
  ELSE /\ Len(pending) < MaxPending
       /\ sock' = StaleClosed
       /\ ws' = 0
       /\ isConnecting' = TRUE
       /\ pending' = Append(pending, caller)
       /\ alarmAt' = armed
       /\ hist' = h
       /\ UNCHANGED <<keepAliveAlarm, messageStore>>

RemoveAt(q, i) == SubSeq(q, 1, i - 1) \o SubSeq(q, i + 1, Len(q))

(***************************************************************************)
(* Keep-alive variant: the operator's requests.                            *)
(***************************************************************************)
StartKA ==
  /\ variant = "keepalive"
  /\ botEnabled' = TRUE
  /\ storedEnabled' = TRUE
  /\ ConnectKA("start", [Rearmed(hist) EXCEPT !.stopped = FALSE], alarmAt)
  /\ UNCHANGED <<variant, now, testMode, testSummarySent, heartbeatInterval,
                 reconnectAttempts, reconnectTimeout, timers, storedMessages,
                 lastDelay, asideVars>>

TestKA ==
  /\ variant = "keepalive"
  /\ testMode' = TRUE
  /\ testSummarySent' = FALSE
  /\ botEnabled' = TRUE
  /\ storedEnabled' = TRUE
  /\ ConnectKA("test", [hist EXCEPT !.stopped = FALSE], alarmAt)
  /\ UNCHANGED <<variant, now, heartbeatInterval, reconnectAttempts,
                 reconnectTimeout, timers, storedMessages, lastDelay, asideVars>>

\* /stop: cleanup() drops the reference without closing the transport
StopKA ==
  /\ variant = "keepalive"
  /\ botEnabled' = FALSE
  /\ storedEnabled' = FALSE
  /\ heartbeatInterval' = FALSE
  /\ timers' = timers \ {reconnectTimeout}
  /\ reconnectTimeout' = 0
  /\ ws' = 0
  /\ isConnecting' = FALSE
  /\ alarmAt' = IF keepAliveAlarm THEN NoAlarm ELSE alarmAt
  /\ keepAliveAlarm' = FALSE
  /\ hist' = [Rearmed(hist) EXCEPT !.stopped = TRUE]
  /\ UNCHANGED <<variant, now, testMode, testSummarySent, sock, reconnectAttempts,
                 messageStore, storedMessages, pending, lastDelay, asideVars>>

(***************************************************************************)
(* Keep-alive variant: the alarm.                                          *)
(***************************************************************************)
\* alarm(), the handler itself
AlarmHandlerKA ==
  /\ variant = "keepalive"
  /\ alarmAt # NoAlarm
  /\ IF testMode /\ ~testSummarySent
     THEN \* the one-shot: sendSummary, then disable
          /\ messageStore' = storedMessages
          /\ hist' = [Summarised(hist, "test") EXCEPT !.testDue = NoAlarm]
          /\ testSummarySent' = TRUE
          /\ testMode' = FALSE
          /\ botEnabled' = FALSE
          /\ storedEnabled' = FALSE
          /\ alarmAt' = NoAlarm
          /\ UNCHANGED <<ws, sock, isConnecting, pending, keepAliveAlarm>>
     ELSE IF ~storedEnabled
     THEN /\ alarmAt' = NoAlarm
          /\ UNCHANGED <<messageStore, hist, testSummarySent, testMode, botEnabled,
                         storedEnabled, ws, sock, isConnecting, pending,
                         keepAliveAlarm>>
     ELSE /\ botEnabled' = storedEnabled
          /\ IF ws = 0 \/ ~IsOpen(ws)
             THEN ConnectKA("alarm", hist, NoAlarm)
             ELSE /\ AfterConnect("alarm", hist)
                  /\ UNCHANGED <<ws, sock, isConnecting, pending>>
          /\ UNCHANGED <<testSummarySent, testMode, storedEnabled>>
  /\ UNCHANGED <<variant, now, heartbeatInterval, reconnectAttempts,
                 reconnectTimeout, timers, storedMessages, lastDelay, asideVars>>

\* the alarm is due and its handler runs
AlarmKA ==
  /\ now >= alarmAt
  /\ AlarmHandlerKA

(***************************************************************************)
(* connectToGateway after its fetch (both variants).                       *)
(***************************************************************************)
\* the fetch answered: new WebSocket(...), listeners attached
ConnectResume(i) ==
  /\ variant \in {"keepalive", "backoff"}
  /\ i \in 1..Len(pending)
  /\ \E s \in Sockets : sock[s] = "closed"
  /\ ws' = FreeSocket
  /\ sock' = [sock EXCEPT ![FreeSocket] = "connecting"]
  /\ pending' = RemoveAt(pending, i)
  /\ AfterConnect(pending[i], hist)
  /\ UNCHANGED <<variant, now, botEnabled, storedEnabled, testMode, testSummarySent,
                 isConnecting, heartbeatInterval, reconnectAttempts,
                 reconnectTimeout, timers, storedMessages, lastDelay, asideVars>>

\* the fetch failed, keep-alive variant: catch
ConnectFailKA(i) ==
  /\ variant = "keepalive"
  /\ i \in 1..Len(pending)
  /\ isConnecting' = FALSE
  /\ ws' = 0
  /\ pending' = RemoveAt(pending, i)
  /\ AfterConnect(pending[i], hist)
  /\ UNCHANGED <<variant, now, botEnabled, storedEnabled, testMode, testSummarySent,
                 sock, heartbeatInterval, reconnectAttempts, reconnectTimeout,
                 timers, storedMessages, lastDelay, asideVars>>

\* the fetch failed, backoff variant: catch, with the retry timer
ConnectFailBO(i) ==
  /\ variant = "backoff"
  /\ i \in 1..Len(pending)
  /\ reconnectAttempts < MaxAttempts
  /\ \E t \in TimerIds : t \notin timers
  /\ isConnecting' = FALSE
  /\ reconnectAttempts' = reconnectAttempts + 1
  /\ lastDelay' = BackoffDelay(reconnectAttempts + 1)
  /\ reconnectTimeout' = FreeTimer(timers)
  /\ timers' = timers \cup {FreeTimer(timers)}
  /\ pending' = RemoveAt(pending, i)
  /\ AfterConnect(pending[i],
                  [hist EXCEPT !.failuresSinceReady = Sat(hist.failuresSinceReady),
                               !.failuresSinceOpen = Sat(hist.failuresSinceOpen)])
  /\ UNCHANGED <<variant, now, botEnabled, storedEnabled, testMode, testSummarySent,
                 ws, sock, heartbeatInterval, storedMessages, asideVars>>

(***************************************************************************)
(* Transport events (listeners of every WebSocket ever created).           *)
(***************************************************************************)
\* 'open'
SockOpen(s) ==
  /\ sock[s] = "connecting"
  /\ sock' = [sock EXCEPT ![s] = "open"]
  /\ reconnectAttempts' = 0
  /\ isConnecting' = FALSE
  /\ hist' = [hist EXCEPT !.failuresSinceOpen = 0]
  /\ UNCHANGED <<variant, now, botEnabled, storedEnabled, testMode, testSummarySent,
                 ws, heartbeatInterval, reconnectTimeout, timers, keepAliveAlarm,
                 alarmAt, messageStore, storedMessages, pending, lastDelay, asideVars>>

\* the phase of transport r after the Hello of transport s has been handled:
\* s has seen its Hello, and identify() has sent op 2 on this.ws if it is open
AfterHello(s, r) ==
  LET seen == IF r = s
              THEN (IF sock[r] = "identifiedEarly" THEN "identified" ELSE "helloed")
              ELSE sock[r]
  IN IF r = ws /\ IsOpen(r)
     THEN (CASE seen = "open"    -> "identifiedEarly"
             [] seen = "helloed" -> "identified"
             [] OTHER            -> seen)
     ELSE seen

\* 'message' with op 10 (Hello), the first frame of a connection:
\* startHeartbeat, identify (on this.ws, if open), scheduleNextSummary
Hello(s) ==
  /\ sock[s] \in {"open", "identifiedEarly"}
  /\ heartbeatInterval' = TRUE
  /\ sock' = [r \in Sockets |-> AfterHello(s, r)]
  /\ alarmAt' = NextSummary(now)
  /\ UNCHANGED <<variant, now, botEnabled, storedEnabled, testMode, testSummarySent,
                 ws, isConnecting, reconnectAttempts, reconnectTimeout, timers,
                 keepAliveAlarm, messageStore, storedMessages, pending, lastDelay,
                 hist, asideVars>>

\* 'message' with op 0, t = READY, the answer to identify
Ready(s) ==
  /\ sock[s] = "identified"
  /\ sock' = [sock EXCEPT ![s] = "ready"]
  /\ hist' = [hist EXCEPT !.failuresSinceReady = 0]
  /\ UNCHANGED <<variant, now, botEnabled, storedEnabled, testMode, testSummarySent,
                 ws, isConnecting, heartbeatInterval, reconnectAttempts,
                 reconnectTimeout, timers, keepAliveAlarm, alarmAt, messageStore,
                 storedMessages, pending, lastDelay, asideVars>>

SourceChannel == "source"
Channels == {SourceChannel, "other"}

\* a record-time check that looks at the channel only
RejectedByChannelOnly(channel, bot) == channel # SourceChannel

\* the two early returns of the MESSAGE_CREATE handlers:
\* channel_id !== CHANNEL_ID, author.bot
Rejected(channel, bot) == channel # SourceChannel \/ bot

\* handleMessageCreate: filter, push, prune, persist
Recorded(store, id, channel) ==
  FilterRecent(Append(store, [id |-> id, timestamp |-> now, channelId |-> channel]),
               now - IntervalMs)

\* 'message' with op 0, t = MESSAGE_CREATE
MessageCreate(s, id, channel, bot) ==
  /\ sock[s] = "ready"
  /\ IF Rejected(channel, bot)
     THEN UNCHANGED <<messageStore, storedMessages>>
     ELSE /\ Len(messageStore) < MaxStore
          /\ messageStore' = Recorded(messageStore, id, channel)
          /\ storedMessages' = Recorded(messageStore, id, channel)
  /\ UNCHANGED <<variant, now, botEnabled, storedEnabled, testMode, testSummarySent,
                 ws, sock, isConnecting, heartbeatInterval, reconnectAttempts,
                 reconnectTimeout, timers, keepAliveAlarm, alarmAt, pending,
                 lastDelay, hist, asideVars>>

\* 'error': the transport fails; its close event follows
SockError(s) ==
  /\ sock[s] \notin {"closed", "closing"}
  /\ sock' = [sock EXCEPT ![s] = "closing"]
  /\ isConnecting' = FALSE
  /\ UNCHANGED <<variant, now, botEnabled, storedEnabled, testMode, testSummarySent,
                 ws, heartbeatInterval, reconnectAttempts, reconnectTimeout, timers,
                 keepAliveAlarm, alarmAt, messageStore, storedMessages, pending,
                 lastDelay, hist, asideVars>>

\* 'close', keep-alive variant: reconnection is left to the next alarm
SockCloseKA(s) ==
  /\ variant = "keepalive"
  /\ sock[s] # "closed"
  /\ sock' = [sock EXCEPT ![s] = "closed"]
  /\ ws' = 0
  /\ heartbeatInterval' = FALSE
  /\ UNCHANGED <<variant, now, botEnabled, storedEnabled, testMode, testSummarySent,
                 isConnecting, reconnectAttempts, reconnectTimeout, timers,
                 keepAliveAlarm, alarmAt, messageStore, storedMessages, pending,
                 lastDelay, hist, asideVars>>

\* 'close', backoff variant: cleanup(), then the backoff timer
SockCloseBO(s) ==
  /\ variant = "backoff"
  /\ sock[s] # "closed"
  /\ reconnectAttempts < MaxAttempts
  /\ sock' = [sock EXCEPT ![s] = "closed"]
  /\ heartbeatInterval' = FALSE
  /\ ws' = 0
  /\ isConnecting' = FALSE
  /\ reconnectAttempts' = reconnectAttempts + 1
  /\ lastDelay' = BackoffDelay(reconnectAttempts + 1)
  /\ LET live == timers \ {reconnectTimeout} IN
       /\ \E t \in TimerIds : t \notin live
       /\ reconnectTimeout' = FreeTimer(live)
       /\ timers' = live \cup {FreeTimer(live)}
  /\ hist' = [hist EXCEPT !.failuresSinceReady = Sat(hist.failuresSinceReady),
                          !.failuresSinceOpen = Sat(hist.failuresSinceOpen)]
  /\ UNCHANGED <<variant, now, botEnabled, storedEnabled, testMode, testSummarySent,
                 keepAliveAlarm, alarmAt, messageStore, storedMessages, pending,
                 asideVars>>

(***************************************************************************)
(* Backoff variant: /start, the reconnect timer, the alarm.                *)
(***************************************************************************)
\* connectToGateway of the backoff variant up to its fetch
ConnectBO(caller) ==
  /\ variant = "backoff"
  /\ IF ConnectReturnsBO
     THEN UNCHANGED <<isConnecting, pending>>
     ELSE /\ Len(pending) < MaxPending
          /\ isConnecting' = TRUE
          /\ pending' = Append(pending, caller)

StartBO ==
  /\ ~ConnectReturnsBO
  /\ ConnectBO("bo-start")
  /\ UNCHANGED <<variant, now, botEnabled, storedEnabled, testMode, testSummarySent,
                 ws, sock, heartbeatInterval, reconnectAttempts, reconnectTimeout,
                 timers, keepAliveAlarm, alarmAt, messageStore, storedMessages,
                 lastDelay, hist, asideVars>>

\* the setTimeout callback: () => this.connectToGateway()
TimerFire(t) ==
  /\ t \in timers
  /\ timers' = timers \ {t}
  /\ ConnectBO("timer")
  /\ UNCHANGED <<variant, now, botEnabled, storedEnabled, testMode, testSummarySent,
                 ws, sock, heartbeatInterval, reconnectAttempts, reconnectTimeout,
                 keepAliveAlarm, alarmAt, messageStore, storedMessages, lastDelay,
                 hist, asideVars>>

\* alarm(): sendSummary, then scheduleNextSummary
AlarmBO ==
  /\ variant = "backoff"
  /\ alarmAt # NoAlarm
  /\ now >= alarmAt
  /\ messageStore' = storedMessages
  /\ hist' = Summarised(hist, "hour")
  /\ alarmAt' = NextSummary(now)
  /\ UNCHANGED <<variant, now, botEnabled, storedEnabled, testMode, testSummarySent,
                 ws, sock, isConnecting, heartbeatInterval, reconnectAttempts,
                 reconnectTimeout, timers, keepAliveAlarm, storedMessages, pending,
                 lastDelay, asideVars>>

(***************************************************************************)
(* The clock.  It never runs past an armed alarm: the alarm fires first.   *)
(***************************************************************************)
TickTo(t) ==
  /\ alarmAt = NoAlarm \/ t <= alarmAt
  /\ now' = t
  /\ UNCHANGED <<variant, botEnabled, storedEnabled, testMode, testSummarySent, ws,
                 sock, isConnecting, heartbeatInterval, reconnectAttempts,
                 reconnectTimeout, timers, keepAliveAlarm, alarmAt, messageStore,
                 storedMessages, pending, lastDelay, hist, asideVars>>

\* 30 seconds pass
TickKeepAlive ==
  /\ ((now + KeepAliveMs) - StartTime) % DayMs <= MaxTicks * KeepAliveMs
  /\ TickTo(now + KeepAliveMs)

\* a day passes, no call being suspended on a fetch; the clock is sampled a
\* day after the start of a day, and then in 30-second steps again
TickDay ==
  /\ pending = <<>>
  /\ (now - StartTime) % DayMs = 0
  /\ now + DayMs <= StartTime + MaxDays * DayMs + MaxTicks * KeepAliveMs
  /\ TickTo(now + DayMs)

(***************************************************************************)
(* The two gateway workers.                                                *)
(***************************************************************************)
InitKA == InitGateway("keepalive") /\ InitNoChunk

InitBO == InitGateway("backoff") /\ InitNoChunk

NextKA ==
  \/ StartKA
  \/ TestKA
  \/ StopKA
  \/ AlarmKA
  \/ \E i \in 1..MaxPending : ConnectResume(i)
  \/ \E i \in 1..MaxPending : ConnectFailKA(i)
  \/ \E s \in Sockets : SockOpen(s)
  \/ \E s \in Sockets : Hello(s)
  \/ \E s \in Sockets : Ready(s)
  \/ \E s \in Sockets, id \in 1..MaxMsgId, c \in Channels, b \in BOOLEAN :
        MessageCreate(s, id, c, b)
  \/ \E s \in Sockets : SockError(s)
  \/ \E s \in Sockets : SockCloseKA(s)
  \/ TickKeepAlive
  \/ TickDay

NextBO ==
  \/ StartBO
  \/ \E t \in TimerIds : TimerFire(t)
  \/ AlarmBO
  \/ \E i \in 1..MaxPending : ConnectResume(i)
  \/ \E i \in 1..MaxPending : ConnectFailBO(i)
  \/ \E s \in Sockets : SockOpen(s)
  \/ \E s \in Sockets : Hello(s)
  \/ \E s \in Sockets : Ready(s)
  \/ \E s \in Sockets, id \in 1..MaxMsgId, c \in Channels, b \in BOOLEAN :
        MessageCreate(s, id, c, b)
  \/ \E s \in Sockets : SockError(s)
  \/ \E s \in Sockets : SockCloseBO(s)
  \/ TickKeepAlive
  \/ TickDay

SpecKA == InitKA /\ [][NextKA]_vars

SpecBO == InitBO /\ [][NextBO]_vars

(***************************************************************************)
(* Either gateway worker with connect calls from /start, /test, the alarm  *)
(* and the reconnect timer only: the operator never sends /stop.           *)
(***************************************************************************)
InitConnect == variant \in {"keepalive", "backoff"} /\ InitGateway(variant) /\ InitNoChunk

NextConnect ==
  \/ StartKA
  \/ TestKA
  \/ AlarmKA
  \/ \E i \in 1..MaxPending : ConnectFailKA(i)
  \/ \E s \in Sockets : SockCloseKA(s)
  \/ StartBO
  \/ \E t \in TimerIds : TimerFire(t)
  \/ AlarmBO
  \/ \E i \in 1..MaxPending : ConnectFailBO(i)
  \/ \E s \in Sockets : SockCloseBO(s)
  \/ \E i \in 1..MaxPending : ConnectResume(i)
  \/ \E s \in Sockets : SockOpen(s)
  \/ \E s \in Sockets : Hello(s)
  \/ \E s \in Sockets : Ready(s)
  \/ \E s \in Sockets, id \in 1..MaxMsgId, c \in Channels, b \in BOOLEAN :
        MessageCreate(s, id, c, b)
  \/ \E s \in Sockets : SockError(s)
  \/ TickKeepAlive
  \/ TickDay

SpecConnect == InitConnect /\ [][NextConnect]_vars

(***************************************************************************)
(* The local bot (bot.js) and its scheduler (scheduler.js).                *)
(***************************************************************************)
MaxLocalStore == 2      \* events in the local bot's messageStore
MaxLocalIds   == 3      \* distinct message ids the local bot sees
MaxCreatedLag == 1000   \* ms between a message's creation and its dispatch

\* an `if` in place of the `while`: at most one old head is shifted
ShiftOldOnce(store, cutoffTime) ==
  IF store # <<>> /\ store[1].timestamp < cutoffTime THEN Tail(store) ELSE store

\* the while loop of the MessageCreate handler: shift the head while it is old
RECURSIVE ShiftOld(_, _)
ShiftOld(store, cutoffTime) ==
  IF store # <<>> /\ store[1].timestamp < cutoffTime
  THEN ShiftOld(Tail(store), cutoffTime)
  ELSE store

\* client.on(Events.MessageCreate): the event is stamped with the message's
\* createdTimestamp, which the remote side sets
LocalRecord(id, createdTimestamp, channel, bot) ==
  /\ variant = "local"
  /\ IF Rejected(channel, bot)
     THEN /\ hist' = [hist EXCEPT !.lastDispatch = Dispatched(id, channel, bot)]
          /\ UNCHANGED messageStore
     ELSE LET messageData == [id |-> id, timestamp |-> createdTimestamp,
                              channelId |-> channel]
          IN /\ Len(messageStore) < MaxLocalStore
             /\ \A e \in hist.recorded : e.id # id   \* message ids are unique
             /\ messageStore' = ShiftOld(Append(messageStore, messageData),
                                         now - IntervalMs)
             /\ hist' = [hist EXCEPT !.recorded = hist.recorded \cup {messageData},
                                     !.lastDispatch = Dispatched(id, channel, bot)]
  /\ UNCHANGED <<variant, now, botEnabled, storedEnabled, testMode, testSummarySent,
                 ws, sock, isConnecting, heartbeatInterval, reconnectAttempts,
                 reconnectTimeout, timers, keepAliveAlarm, alarmAt, storedMessages,
                 pending, lastDelay, asideVars>>

\* the cron job (or the TEST_IMMEDIATE timeout): sendSummary(client)
LocalSendSummary ==
  /\ variant = "local"
  /\ hist' = [hist EXCEPT !.lastSummary =
       [at |-> now, kind |-> "cron",
        listed |-> FilterRecent(messageStore, now - IntervalMs)]]
  /\ UNCHANGED <<variant, now, botEnabled, storedEnabled, testMode, testSummarySent,
                 ws, sock, isConnecting, heartbeatInterval, reconnectAttempts,
                 reconnectTimeout, timers, keepAliveAlarm, alarmAt, messageStore,
                 storedMessages, pending, lastDelay, asideVars>>

InitLocal == InitGateway("local") /\ InitNoChunk

NextLocal ==
  \/ \E id \in 1..MaxLocalIds, lag \in {0, MaxCreatedLag}, c \in Channels, b \in BOOLEAN :
        LocalRecord(id, now - lag, c, b)
  \/ LocalSendSummary
  \/ TickKeepAlive
  \/ TickDay

SpecLocal == InitLocal /\ [][NextLocal]_vars

(***************************************************************************)
(* One digest run, from its trigger to its report, request by request.     *)
(* Entry points:                                                           *)
(*   "gateway"    DiscordBot.sendSummary of the gateway worker             *)
(*   "scheduler"  sendSummary of scheduler.js (local bot, discord.js)      *)
(*   "scheduled"  scheduled -> generateAndSendSummary of the polling worker*)
(*   "test"       /test -> testWithLongMessages of the polling worker      *)
(* Every request is an await; its outcome is the remote side's choice:     *)
(*   "ok"      a 2xx response                                              *)
(*   "non2xx"  a response with another status and a JSON error body        *)
(*   "fail"    the promise rejects (network error, unparsable body)        *)
(***************************************************************************)
Entries == {"gateway", "scheduler", "scheduled", "test"}

Outcomes == {"ok", "non2xx", "fail"}

MaxChunks == 3

\* generateAndSendSummary throws on a missing DISCORD_TOKEN, CHANNEL_ID or
\* USER_ID before its first request; no other entry point looks at them
Validates(e) == e = "scheduled"

\* a skip that only the local scheduler makes: C15 must tell it from the code's
SkipsEmptyWindowLocalOnly(e) == e = "scheduler"

\* `if (recentMessages.length === 0) return` of both sendSummary functions;
\* the polling worker renders a "no activity" text and delivers it
SkipsEmptyWindow(e) == e \in {"gateway", "scheduler"}

\* a non-2xx answer ends the run: `if (!response.ok) throw` of the polling
\* worker, the rejected promise of discord.js; the gateway worker never reads
\* the status of a response
ChecksStatus(e) == e # "gateway"

\* the values an entry point's requests carry
Needs(e) ==
  CASE e = "scheduled" -> {"token", "channel", "user"}
    [] OTHER           -> {"token", "user"}

\* the first await of an entry point
FirstRequest(e) ==
  CASE e = "scheduled" -> "fetch"     \* fetchChannelMessages
    [] e = "scheduler" -> "user"      \* client.users.fetch
    [] OTHER           -> "open"      \* POST users/@me/channels

Failed(d, c) == [d EXCEPT !.pc = "done", !.report = "failed", !.cause = c]

\* the trigger fires: the run up to its first await
Trigger(e, tok, ch, usr, w, n) ==
  /\ variant = "digest"
  /\ digest.pc = "idle"
  /\ (w = 0 => n = 1)
  /\ LET d == [NoDigest EXCEPT !.entry = e, !.token = tok, !.channel = ch,
                               !.user = usr, !.inWindow = w, !.nChunks = n]
     IN digest' =
          IF Validates(e) /\ ~tok THEN Failed(d, "Missing DISCORD_TOKEN")
          ELSE IF Validates(e) /\ ~ch THEN Failed(d, "Missing CHANNEL_ID")
          ELSE IF Validates(e) /\ ~usr THEN Failed(d, "Missing USER_ID")
          ELSE IF SkipsEmptyWindow(e) /\ w = 0
               THEN [d EXCEPT !.pc = "done", !.report = "skipped"]
               ELSE [d EXCEPT !.pc = FirstRequest(e)]
  /\ UNCHANGED <<gatewayVars, chunkVars, summaryTimeHour, frameVars, calc>>

\* what the remote side can answer: no 2xx without a credential, none for a
\* channel or recipient that is not named
CanAnswer(d, o) ==
  o = "ok" =>
    /\ d.token
    /\ d.pc = "fetch" => d.channel
    /\ d.pc \in {"user", "open"} => d.user
    /\ d.pc = "post" => d.dm

\* the pending request is answered and the run goes on to its next await
Respond(o) ==
  /\ variant = "digest"
  /\ digest.pc \in {"fetch", "user", "open", "post"}
  /\ CanAnswer(digest, o)
  /\ LET d == [digest EXCEPT !.requests =
                   Append(@, [kind |-> digest.pc, chunk |-> digest.k, outcome |-> o])]
     IN digest' =
          IF o = "fail" THEN Failed(d, "rejected")
          ELSE IF o = "non2xx" /\ ChecksStatus(d.entry) THEN Failed(d, "status")
          ELSE CASE d.pc \in {"fetch", "user"} -> [d EXCEPT !.pc = "open"]
                 [] d.pc = "open" -> [d EXCEPT !.pc = "post", !.k = 1, !.dm = (o = "ok")]
                 [] d.pc = "post" /\ d.k < d.nChunks -> [d EXCEPT !.k = @ + 1]
                 [] OTHER -> [d EXCEPT !.pc = "done", !.report = "sent"]
  /\ UNCHANGED <<gatewayVars, chunkVars, summaryTimeHour, frameVars, calc>>

InitDelivery == InitGateway("digest") /\ InitNoChunk

NextDelivery ==
  \/ \E e \in Entries, tok \in BOOLEAN, ch \in BOOLEAN, usr \in BOOLEAN,
        w \in 0..1, n \in 1..MaxChunks : Trigger(e, tok, ch, usr, w, n)
  \/ \E o \in Outcomes : Respond(o)

SpecDelivery == InitDelivery /\ [][NextDelivery]_vars

(***************************************************************************)
(* scheduleNextSummary alone, for every configured hour and calling time.  *)
(***************************************************************************)
Hours == 0..23

\* calling times: on the hour, one millisecond after, one millisecond before
\* the next
ScheduleTimes == {h * HourMs + o : h \in Hours, o \in {0, 1, HourMs - 1}}

InitSchedule ==
  /\ \E h \in Hours, t \in ScheduleTimes : InitFields("schedule", t, h)
  /\ InitNoChunk

ScheduleNextSummary ==
  /\ variant = "schedule"
  /\ alarmAt' = NextSummaryAt(summaryTimeHour, now)
  /\ UNCHANGED <<variant, now, botEnabled, storedEnabled, testMode, testSummarySent,
                 ws, sock, isConnecting, heartbeatInterval, reconnectAttempts,
                 reconnectTimeout, timers, keepAliveAlarm, messageStore,
                 storedMessages, pending, lastDelay, hist, asideVars>>

NextSchedule == ScheduleNextSummary

SpecSchedule == InitSchedule /\ [][NextSchedule]_vars

(***************************************************************************)
(* The frame handler of the gateway worker: handleGatewayMessage and       *)
(* handleEvent, for every opcode and event type, on a transport that       *)
(* /start has opened.                                                      *)
(***************************************************************************)
MaxSeq == 2
MaxSent == 4     \* frames sent before the interval callback stops
MaxFrames == 4

\* opcodes of the gateway protocol: 0 dispatch, 1 heartbeat request,
\* 7 reconnect, 9 invalid session, 10 hello, 11 heartbeat ack
OpCodes == {0, 1, 7, 9, 10, 11}

EventTypes == {"READY", "MESSAGE_CREATE", "GUILD_CREATE", "TYPING_START"}

\* the frames: { op, t, s, d }, t being null unless op is 0; of d, the
\* message of a MESSAGE_CREATE
Frames ==
  [op : {0}, t : {"MESSAGE_CREATE"}, s : 1..MaxSeq,
   d : {Dispatched(id, c, b) : id \in 1..MaxMsgId, c \in Channels, b \in BOOLEAN}] \cup
  [op : {0}, t : EventTypes \ {"MESSAGE_CREATE"}, s : 1..MaxSeq, d : {NoDispatch}] \cup
  [op : OpCodes \ {0}, t : {"none"}, s : {Null, Absent} \cup 1..MaxSeq,
   d : {NoDispatch}]

\* a hello case that also takes every opcode the switch does not name: C19
\* must tell it from the code's
IsHelloOrDefault(f) == f.op \notin {0, 1, 11}

\* `case 10` of handleGatewayMessage
IsHello(f) == f.op = 10

\* the frames that reach `default:` of handleGatewayMessage, and the
\* dispatches for which handleEvent has no case
IsUnknown(f) ==
  \/ f.op \notin {0, 1, 10, 11}
  \/ f.op = 0 /\ f.t \notin {"READY", "MESSAGE_CREATE"}

\* ws.send on this.ws, guarded by readyState === OPEN in sendHeartbeat and
\* identify
\* a send without the guard on this.ws
SendUnguarded(op, d) == Append(sent, [on |-> ws, op |-> op, d |-> d])

Send(op, d) ==
  IF ws # 0 /\ IsOpen(ws) THEN Append(sent, [on |-> ws, op |-> op, d |-> d]) ELSE sent

\* a sendHeartbeat that sends the frame twice
SendHeartbeatTwice(seq) ==
  IF ws # 0 /\ IsOpen(ws)
  THEN sent \o << [on |-> ws, op |-> 1, d |-> seq], [on |-> ws, op |-> 1, d |-> seq] >>
  ELSE sent

\* sendHeartbeat(): { op: 1, d: this.sequenceNumber }, seq being
\* this.sequenceNumber when it runs
SendHeartbeat(seq) == Send(1, seq)

\* 'message' on transport s: handleGatewayMessage(JSON.parse(event.data))
HandleGatewayMessage(s, f) ==
  /\ variant = "keepalive"
  /\ IsOpen(s)
  /\ frames.n < MaxFrames
  /\ sequenceNumber' = IF f.s # Null THEN f.s ELSE sequenceNumber
  /\ frames' = [n |-> frames.n + 1, last |-> f,
                ignored |-> frames.ignored + (IF IsUnknown(f) THEN 1 ELSE 0),
                seq |-> IF f.s \in 1..MaxSeq THEN f.s ELSE frames.seq]
  /\ IF IsHello(f)
     THEN /\ sock[s] \in {"open", "identifiedEarly"}
          /\ heartbeatInterval' = TRUE
          /\ sent' = Send(2, Null)   \* identify; its payload is not modelled
          /\ sock' = [r \in Sockets |-> AfterHello(s, r)]
          /\ alarmAt' = NextSummary(now)
          /\ UNCHANGED <<sessionId, messageStore, storedMessages, hist>>
     ELSE IF f.op = 0 /\ f.t = "READY"
     THEN /\ sock[s] = "identified"
          /\ sock' = [sock EXCEPT ![s] = "ready"]
          /\ sessionId' = s
          /\ hist' = [hist EXCEPT !.failuresSinceReady = 0]
          /\ UNCHANGED <<heartbeatInterval, sent, alarmAt, messageStore, storedMessages>>
     ELSE IF f.op = 0 /\ f.t = "MESSAGE_CREATE"
     THEN /\ sock[s] = "ready"
          /\ IF Rejected(f.d.channel, f.d.bot)
             THEN UNCHANGED <<messageStore, storedMessages>>
             ELSE /\ Len(messageStore) < MaxStore
                  /\ messageStore' = Recorded(messageStore, f.d.id, f.d.channel)
                  /\ storedMessages' = Recorded(messageStore, f.d.id, f.d.channel)
          /\ UNCHANGED <<heartbeatInterval, sent, sock, alarmAt, sessionId, hist>>
     ELSE IF f.op = 1
     THEN /\ sent' = SendHeartbeat(sequenceNumber')
          /\ UNCHANGED <<heartbeatInterval, sock, alarmAt, sessionId, messageStore,
                         storedMessages, hist>>
     ELSE UNCHANGED <<heartbeatInterval, sent, sock, alarmAt, sessionId, messageStore,
                      storedMessages, hist>>
  /\ UNCHANGED <<variant, now, botEnabled, storedEnabled, testMode, testSummarySent,
                 ws, isConnecting, reconnectAttempts, reconnectTimeout, timers,
                 keepAliveAlarm, pending, lastDelay, chunkVars, digest,
                 summaryTimeHour, calc>>

\* the callback of the setInterval of startHeartbeat
HeartbeatFires ==
  /\ variant = "keepalive"
  /\ heartbeatInterval
  /\ Len(sent) < MaxSent
  /\ sent' = SendHeartbeat(sequenceNumber)
  /\ UNCHANGED <<gatewayVars, chunkVars, digest, summaryTimeHour, calc,
                 sequenceNumber, sessionId, frames>>

InitFrames == InitGateway("keepalive") /\ InitNoChunk

NextFrames ==
  \/ StartKA
  \/ \E i \in 1..MaxPending : ConnectResume(i)
  \/ \E s \in Sockets : SockOpen(s)
  \/ \E s \in Sockets, f \in Frames : HandleGatewayMessage(s, f)
  \/ HeartbeatFires

SpecFrames == InitFrames /\ [][NextFrames]_vars

(***************************************************************************)
(* The keep-alive worker with re-construction: the Durable Object is       *)
(* evicted and its constructor runs again on the next event.  Fields are   *)
(* reset, the WebSocket objects, timers and suspended calls of the old     *)
(* instance are gone; storage and the alarm persist.                       *)
(***************************************************************************)
Restart ==
  /\ variant = "keepalive"
  /\ storedMessages # <<>>
  /\ ws' = 0
  /\ sock' = [s \in Sockets |-> "closed"]
  /\ heartbeatInterval' = FALSE
  /\ messageStore' = <<>>
  /\ reconnectAttempts' = 0
  /\ isConnecting' = FALSE
  /\ reconnectTimeout' = 0
  /\ timers' = {}
  /\ pending' = <<>>
  /\ botEnabled' = FALSE
  /\ keepAliveAlarm' = FALSE
  /\ testMode' = FALSE
  /\ testSummarySent' = FALSE
  /\ UNCHANGED <<variant, now, storedEnabled, storedMessages, alarmAt, lastDelay,
                 hist, asideVars>>

MaxPersistIds == 2

\* a MESSAGE_CREATE for a message not delivered before: message ids are
\* unique, so its id is none of the persisted ones
MessageCreateNew(s, id, channel, bot) ==
  /\ \A i \in 1..Len(storedMessages) : storedMessages[i].id # id
  /\ MessageCreate(s, id, channel, bot)

InitPersist == InitGateway("keepalive") /\ InitNoChunk

NextPersist ==
  \/ StartKA
  \/ AlarmKA
  \/ \E i \in 1..MaxPending : ConnectResume(i)
  \/ \E s \in Sockets : SockOpen(s)
  \/ \E s \in Sockets : Hello(s)
  \/ \E s \in Sockets : Ready(s)
  \/ \E s \in Sockets, id \in 1..MaxPersistIds, c \in Channels, b \in BOOLEAN :
        MessageCreateNew(s, id, c, b)
  \/ TickKeepAlive
  \/ Restart

SpecPersist == InitPersist /\ [][NextPersist]_vars

(***************************************************************************)
(* Reconnection, both gateway workers, the operator leaving the bot        *)
(* enabled.  The clock is left out: an armed alarm or timer is one that    *)
(* will fire.  Fairness: an armed alarm fires, an armed timer fires, a     *)
(* fetch is answered or fails.  Transport events are the remote side's and *)
(* the network's: nothing obliges them to happen.                          *)
(***************************************************************************)
InitLive == variant \in {"keepalive", "backoff"} /\ InitGateway(variant) /\ InitNoChunk

FetchSettles ==
  \E i \in 1..MaxPending : ConnectResume(i) \/ ConnectFailKA(i) \/ ConnectFailBO(i)

TimerFires == \E t \in TimerIds : TimerFire(t)

NextLive ==
  \/ StartKA
  \/ StartBO
  \/ AlarmHandlerKA
  \/ TimerFires
  \/ FetchSettles
  \/ \E s \in Sockets : SockOpen(s)
  \/ \E s \in Sockets : Hello(s)
  \/ \E s \in Sockets : Ready(s)
  \/ \E s \in Sockets : SockError(s)
  \/ \E s \in Sockets : SockCloseKA(s)
  \/ \E s \in Sockets : SockCloseBO(s)

SpecLive ==
  /\ InitLive
  /\ [][NextLive]_vars
  /\ WF_vars(AlarmHandlerKA)
  /\ WF_vars(TimerFires)
  /\ WF_vars(FetchSettles)

(***************************************************************************)
(* The pruning steps alone, on every buffer: the filter of the gateway     *)
(* worker's handleMessageCreate and the head-shifting loop of the local    *)
(* bot's MessageCreate handler, with cutoff now - IntervalMs.              *)
(***************************************************************************)
MaxBufLen == 3
MaxPrunes == 2

\* receivedAt values around the cutoff: just expired, on the cutoff, just
\* inside the window, now
Stamps == {now - IntervalMs - 1, now - IntervalMs, now - IntervalMs + 1, now}

\* the buffers: events with distinct ids, in any order of their timestamps
Buffers ==
  UNION {{[i \in 1..n |-> [id |-> i, timestamp |-> f[i], channelId |-> SourceChannel]] :
            f \in [1..n -> Stamps]} : n \in 0..MaxBufLen}

HandIn(buf) ==
  /\ variant = "prune"
  /\ calc.op = "none"
  /\ calc' = [NoCalc EXCEPT !.op = "handed", !.input = buf, !.buf = buf]
  /\ UNCHANGED <<gatewayVars, chunkVars, digest, summaryTimeHour, frameVars>>

Pruned(op, result) ==
  [calc EXCEPT !.op = op, !.n = @ + 1, !.buf = result,
               !.once = IF calc.n = 0 THEN result ELSE @]

\* messageStore = messageStore.filter(msg => msg.timestamp >= cutoffTime)
PruneFilter ==
  /\ variant = "prune"
  /\ calc.op \in {"handed", "filter"}
  /\ calc.n < MaxPrunes
  /\ calc' = Pruned("filter", FilterRecent(calc.buf, now - IntervalMs))
  /\ UNCHANGED <<gatewayVars, chunkVars, digest, summaryTimeHour, frameVars>>

\* while (messageStore.length > 0 && messageStore[0].timestamp < cutoffTime) shift()
PruneShift ==
  /\ variant = "prune"
  /\ calc.op \in {"handed", "shift"}
  /\ calc.n < MaxPrunes
  /\ calc' = Pruned("shift", ShiftOld(calc.buf, now - IntervalMs))
  /\ UNCHANGED <<gatewayVars, chunkVars, digest, summaryTimeHour, frameVars>>

InitPrune == InitGateway("prune") /\ InitNoChunk

NextPrune ==
  \/ \E buf \in Buffers : HandIn(buf)
  \/ PruneFilter
  \/ PruneShift

SpecPrune == InitPrune /\ [][NextPrune]_vars

(***************************************************************************)
(* Recording alone, in the gateway worker and in the local bot: a session  *)
(* is brought up and frames are handled; the local bot's MessageCreate     *)
(* handler runs as the clock advances.                                     *)
(***************************************************************************)
InitRecord == \E v \in {"keepalive", "local"} : InitGateway(v) /\ InitNoChunk

NextRecord ==
  \/ NextFrames
  \/ NextLocal

SpecRecord == InitRecord /\ [][NextRecord]_vars

(***************************************************************************)
(* Rendering alone: formatSummary of each program applied to a buffer.  A  *)
(* digest is its lines, one per event and named by the event, and its      *)
(* footer, the count and the noun after it.                                *)
(*   "gateway"    DiscordBot.formatSummary of the gateway worker           *)
(*   "scheduler"  formatSummary of scheduler.js (local bot)                *)
(*   "polling"    formatSummary of the polling worker                      *)
(***************************************************************************)
Renderers == {"gateway", "scheduler", "polling"}

\* `message${messages.length !== 1 ? 's' : ''}` after the count
Footer(n) == [count |-> n, noun |-> IF n # 1 THEN "messages" ELSE "message"]

\* `${messages.length} message(s)`
PollingFooter(n) == [count |-> n, noun |-> "message(s)"]

RECURSIVE Inserted(_, _)
\* e put into the sorted sequence behind every entry that is not later
Inserted(sorted, e) ==
  IF sorted = <<>> THEN << e >>
  ELSE IF sorted[Len(sorted)].timestamp <= e.timestamp THEN Append(sorted, e)
  ELSE Append(Inserted(SubSeq(sorted, 1, Len(sorted) - 1), e), sorted[Len(sorted)])

RECURSIVE Sorted(_)
\* [...messages].sort((a, b) => new Date(a.timestamp) - new Date(b.timestamp)),
\* a stable sort
Sorted(messages) ==
  IF messages = <<>> THEN <<>>
  ELSE Inserted(Sorted(SubSeq(messages, 1, Len(messages) - 1)), messages[Len(messages)])

\* formatSummary of the gateway worker and of scheduler.js: one line per
\* message of `for (const msg of messages)`, then the footer
FormatSummary(messages) == [lines |-> messages, footer |-> Footer(Len(messages))]

\* formatSummary of the polling worker: the "No Activity" text for no
\* message, else a line per message of the sorted copy and the footer
PollingFormatSummary(messages) ==
  IF Len(messages) = 0
  THEN [lines |-> <<>>, footer |-> NoCalc.footer]
  ELSE [lines |-> Sorted(messages), footer |-> PollingFooter(Len(messages))]

\* the buffer is in the order of its timestamps
Ascending(messages) ==
  \A i, j \in 1..Len(messages) : i < j => messages[i].timestamp <= messages[j].timestamp

\* formatSummary(messages, hours) of renderer r.  The gateway worker stamps
\* an event with Date.now() as it appends it, so its buffer is ascending; the
\* local bot stamps createdTimestamp and the polling worker renders what the
\* channel history request returned.
Render(r, messages) ==
  /\ variant = "render"
  /\ r = "gateway" => Ascending(messages)
  /\ LET summary == IF r = "polling" THEN PollingFormatSummary(messages)
                     ELSE FormatSummary(messages)
     IN calc' = [NoCalc EXCEPT !.op = "render", !.renderer = r, !.input = messages,
                               !.lines = summary.lines, !.footer = summary.footer]
  /\ UNCHANGED <<gatewayVars, chunkVars, digest, summaryTimeHour, frameVars>>

MaxContent == 100   \* `content.length > 100`

\* '_[attachment or embed]_' and '[attachment/embed]', each as one character
\* that no content has
Placeholder == << <<"_[attachment or embed]_", 1>> >>
PollingPlaceholder == << <<"[attachment/embed]", 1>> >>

\* what a line shows of msg.content in the gateway worker and scheduler.js:
\* substring(0, 97) + '...' beyond 100, the placeholder if !content.trim()
DisplayContent(text) ==
  LET cut == IF StrLen(text) > MaxContent
             THEN Cat(Substring0(text, MaxContent - 3), Ellipsis) ELSE text
  IN IF Trim(cut) = EmptyStr THEN Placeholder ELSE cut

\* in the polling worker of worker-polling.js: substring(0, 100) + '...'
\* beyond 100, `content || '[attachment/embed]'`
PollingDisplayContentFirst(text) ==
  LET cut == IF StrLen(text) > MaxContent
             THEN Cat(Substring0(text, MaxContent), Ellipsis) ELSE text
  IN IF cut = EmptyStr THEN PollingPlaceholder ELSE cut

\* in the polling worker of the setup guide: `msg.content || '[attachment/embed]'`
PollingDisplayContent(text) == IF text = EmptyStr THEN PollingPlaceholder ELSE text

\* the renderers of a line: the polling worker in its two versions
LineRenderers == {"gateway", "scheduler", "polling-first", "polling"}

\* contents of lengths around the limit, blank ones, and a long one that
\* begins with a space
Contents ==
  {LineOf(k) : k \in {0, 1, MaxContent - 3, MaxContent, MaxContent + 1, MaxContent + 4}}
    \cup {<< <<SP, 2>> >>, << <<NL, 1>> >>, IndentedLineOf(MaxContent + 1)}

\* the body of the loop over the messages, for one message
RenderLine(r, text) ==
  /\ variant = "render"
  /\ calc' = [NoCalc EXCEPT
       !.op = "line", !.renderer = r, !.text = text,
       !.display = IF r = "polling" THEN PollingDisplayContent(text)
                   ELSE IF r = "polling-first" THEN PollingDisplayContentFirst(text)
                   ELSE DisplayContent(text)]
  /\ UNCHANGED <<gatewayVars, chunkVars, digest, summaryTimeHour, frameVars>>

InitRender == InitGateway("render") /\ InitNoChunk

NextRender ==
  \/ \E r \in Renderers, messages \in Buffers : Render(r, messages)
  \/ \E r \in LineRenderers, text \in Contents : RenderLine(r, text)

SpecRender == InitRender /\ [][NextRender]_vars

(***************************************************************************)
(* The keep-alive worker with the dispatches of its sessions told apart:   *)
(* the gateway sends the MESSAGE_CREATE of a message once to every session *)
(* that is ready, so a transport receives a message id at most once.       *)
(***************************************************************************)
MaxTwinStore == 2
MaxTwinIds == 2

\* 'message' with op 0, t = MESSAGE_CREATE on transport s, for message id of
\* the source channel by a non-bot author: handleMessageCreate
DispatchOnce(s, id) ==
  /\ variant = "keepalive"
  /\ sock[s] = "ready"
  /\ <<s, id>> \notin hist.delivered
  /\ ~Rejected(SourceChannel, FALSE)
  /\ Len(messageStore) < MaxTwinStore
  /\ messageStore' = Recorded(messageStore, id, SourceChannel)
  /\ storedMessages' = Recorded(messageStore, id, SourceChannel)
  /\ hist' = [hist EXCEPT !.delivered = @ \cup {<<s, id>>}]
  /\ UNCHANGED <<variant, now, botEnabled, storedEnabled, testMode, testSummarySent,
                 ws, sock, isConnecting, heartbeatInterval, reconnectAttempts,
                 reconnectTimeout, timers, keepAliveAlarm, alarmAt, pending,
                 lastDelay, asideVars>>

InitTwin == InitGateway("keepalive") /\ InitNoChunk

NextTwin ==
  \/ StartKA
  \/ StopKA
  \/ \E i \in 1..MaxPending : ConnectResume(i)
  \/ \E s \in Sockets : SockOpen(s)
  \/ \E s \in Sockets : Hello(s)
  \/ \E s \in Sockets : Ready(s)
  \/ \E s \in Sockets : SockCloseKA(s)
  \/ \E s \in Sockets, id \in 1..MaxTwinIds : DispatchOnce(s, id)

SpecTwin == InitTwin /\ [][NextTwin]_vars

(***************************************************************************)
(* The frame handler with transports that fail and close and with /stop.   *)
(***************************************************************************)
MaxSendFrames == 3
MaxSendSent == 2

InitSend == InitGateway("keepalive") /\ InitNoChunk

\* the frames that make the handler send: Hello, a heartbeat request, and
\* READY, which completes the handshake
SendFrames ==
  {f \in Frames : \/ f.op \in {1, 10} /\ f.s = Null
                  \/ f.op = 0 /\ f.t = "READY" /\ f.s = 1}

NextSend ==
  \/ StartKA
  \/ \E i \in 1..MaxPending : ConnectResume(i)
  \/ \E s \in Sockets : SockOpen(s)
  \/ \E s \in Sockets, f \in SendFrames :
        frames.n < MaxSendFrames /\ HandleGatewayMessage(s, f)
  \/ Len(sent) < MaxSendSent /\ HeartbeatFires
  \/ StopKA
  \/ \E s \in Sockets : SockError(s)
  \/ \E s \in Sockets : SockCloseKA(s)

SpecSend == InitSend /\ [][NextSend]_vars

(***************************************************************************)
(* Claims.                                                                 *)
(***************************************************************************)
LiveSockets == { s \in Sockets : sock[s] \notin {"closed", "closing"} }

\* C1 (as claimed): the session never holds two live transports at once: when
\* a WebSocket is created, every one created earlier has been closed.
C1_SingleLiveTransport == Cardinality(LiveSockets) <= 1

\* C2 (as claimed): from the completion of /stop to the next /start or /test,
\* no new WebSocket is created.
C2_NoConnectWhileStopped ==
  [][(hist.stopped /\ hist'.stopped) =>
       \A s \in Sockets : sock[s] = "closed" => sock'[s] = "closed"]_vars

\* C3 (as claimed): from the completion of /stop to the next /start or /test,
\* no alarm firing renders or delivers a digest.
C3_NoDigestWhileStopped ==
  [][(hist.stopped /\ hist'.stopped) =>
       (hist'.lastSummary = hist.lastSummary \/ hist'.lastSummary.listed = <<>>)]_vars

\* C4 (as claimed): the fixed-hour trigger calls sendSummary at most once per
\* calendar-day occurrence of the configured hour.
C4_OncePerTargetHour ==
  [][(hist'.lastSummary # hist.lastSummary /\ hist'.lastSummary.kind = "hour") =>
       ~(hist.lastSummary.kind = "hour"
         /\ DayOf(hist.lastSummary.at) = DayOf(hist'.lastSummary.at))]_vars

\* C5 (as claimed): after /test, and until the one-shot has fired, the alarm
\* stays armed no later than 30 seconds after the request, whatever gateway
\* frames arrive, so that the digest is sent by that alarm and not later.
C5_OneShotFiresOnTime ==
  (testMode /\ ~testSummarySent /\ ~hist.stopped /\ hist.testDue # NoAlarm) =>
     (alarmAt # NoAlarm /\ alarmAt <= hist.testDue)

\* C7 (as claimed): pruning happens at least once per scheduled trigger, so
\* when sendSummary has run no stored event, in memory or persisted, is older
\* than the retention window.
C7_TriggerPrunesExpired ==
  [][(hist'.lastSummary # hist.lastSummary) =>
       /\ \A i \in 1..Len(messageStore') :
            messageStore'[i].timestamp >= now' - IntervalMs
       /\ \A i \in 1..Len(storedMessages') :
            storedMessages'[i].timestamp >= now' - IntervalMs]_vars

IsAscending(evs) ==
  \A i \in 1..Len(evs) : \A j \in 1..Len(evs) :
     i < j => evs[i].timestamp <= evs[j].timestamp

\* C8 (as claimed): a window selection lists exactly the recorded events with
\* receivedAt in [now - D, now], in ascending receivedAt order.
C8_WindowExactAndAscending ==
  [][(hist'.lastSummary # hist.lastSummary) =>
       /\ { hist'.lastSummary.listed[i] : i \in 1..Len(hist'.lastSummary.listed) }
            = { e \in hist.recorded :
                  e.timestamp >= now - IntervalMs /\ e.timestamp <= now }
       /\ IsAscending(hist'.lastSummary.listed)]_vars

\* 5s, 10s, 20s, 40s, 60s, then 60s for every further failure
BackoffTable == <<5000, 10000, 20000, 40000, 60000>>
ExpectedDelay(k) == IF k <= Len(BackoffTable) THEN BackoffTable[k] ELSE 60000

BackoffSequenceSinceReady ==
  (variant = "backoff" /\ hist.failuresSinceReady >= 1 /\ reconnectTimeout \in timers) =>
     lastDelay = ExpectedDelay(hist.failuresSinceReady)

\* C10 (as claimed): reconnectAttempts is the number of abnormal closes since
\* the last READY; a transport-level open does not reset it.
C10_CounterCountsSinceReady ==
  variant = "backoff" => reconnectAttempts = Min(hist.failuresSinceReady, MaxAttempts)

\* C6 (as claimed): no piece handed to the delivery call is longer than 2000,
\* whichever chunker produced it.
C6_NoChunkExceedsMax ==
  \A i \in 1..Len(chunks) : StrLen(chunks[i]) <= MaxLength

\* the part of C6 that holds: the pieces of splitMessage
C6_SplitMessageWithinMax ==
  chunker = "splitMessage" => \A i \in 1..Len(chunks) : StrLen(chunks[i]) <= MaxLength

\* C11 (as claimed): on every connection the identify payload is sent only
\* after the heartbeat timer has been started from that connection's own
\* Hello frame: no transport has had an identify sent on it while its Hello
\* has not been handled.
C11_IdentifyAfterOwnHello ==
  \A s \in Sockets : sock[s] # "identifiedEarly"

\* a connection attempt is in flight: a connectToGateway call is suspended on
\* its fetch, or a WebSocket it created has not opened yet
ConnectInFlight == pending # <<>> \/ \E s \in Sockets : sock[s] = "connecting"

\* the session is Connected: READY has been handled on this.ws
SessionConnected == ws # 0 /\ sock[ws] = "ready"

\* connectToGateway returns at its guards, before it touches any field
ConnectIsNoOp ==
  IF variant = "keepalive" THEN ~botEnabled \/ ConnectReturnsKA ELSE ConnectReturnsBO

\* C12: whenever a connection attempt is in flight or the session is
\* Connected, a call of connectToGateway returns at its guards: it creates no
\* WebSocket and changes no field (connect calls from /start, /test, the alarm
\* and the reconnect timer, in any interleaving).
C12_ConnectNoOpWhileBusy ==
  (ConnectInFlight \/ SessionConnected) => ConnectIsNoOp

\* the requests of the run that posted a piece of the summary
Posts == {i \in 1..Len(digest.requests) : digest.requests[i].kind = "post"}

\* C13: a post that is answered non-2xx or fails is the last request of its
\* digest (no later piece is posted) and the digest is reported as failed.
C13_FailedChunkAborts ==
  \A i \in Posts :
    digest.requests[i].outcome # "ok" =>
      /\ i = Len(digest.requests)
      /\ digest.report = "failed"

\* the requests of the run that were answered with a non-2xx status while
\* opening the direct channel or posting a piece
DeliveryErrors ==
  {i \in 1..Len(digest.requests) :
     /\ digest.requests[i].kind \in {"open", "post"}
     /\ digest.requests[i].outcome = "non2xx"}

\* C14: a non-2xx answer to the open-channel request or to a post ends the
\* run with a failure report: the run is never reported as sent and does not
\* go on to further requests.
C14_DeliveryErrorSurfaced ==
  DeliveryErrors # {} => digest.pc = "done" /\ digest.report = "failed"

\* C15: when the window filter keeps no event, sendSummary of the gateway
\* worker and of the local scheduler ends at once with no request made: no
\* open-channel request and no post (inWindow is the length of the filter's
\* result, FilterRecent for the gateway worker).
C15_EmptyWindowSkips ==
  (digest.entry \in {"gateway", "scheduler"} /\ digest.inWindow = 0) =>
    /\ digest.requests = <<>>
    /\ digest.pc = "done"
    /\ digest.report = "skipped"

\* C15's case: the gateway worker's trigger has fired on an empty window
C15_GatewayFiredOnEmptyWindow ==
  /\ digest.entry = "gateway"
  /\ digest.inWindow = 0
  /\ digest.pc = "done"

\* a value the run's requests carry is not configured
MissingConfig ==
  \/ "token" \in Needs(digest.entry) /\ ~digest.token
  \/ "channel" \in Needs(digest.entry) /\ ~digest.channel
  \/ "user" \in Needs(digest.entry) /\ ~digest.user

\* C20: a run that gets to deliver with the credential, the source channel or
\* the recipient missing ends at its trigger with an error naming the missing
\* value and makes no request, whichever entry point started it.
C20_ConfigurationErrorFailsFast ==
  (/\ digest.entry # "none"
   /\ MissingConfig
   /\ ~(SkipsEmptyWindow(digest.entry) /\ digest.inWindow = 0)) =>
    /\ digest.requests = <<>>
    /\ digest.pc = "done"
    /\ digest.report = "failed"
    /\ digest.cause \in {"Missing DISCORD_TOKEN", "Missing CHANNEL_ID", "Missing USER_ID"}

\* C16: for every configured hour 0..23 and every calling time,
\* scheduleNextSummary arms the alarm at the next occurrence of that hour,
\* 00 minutes, 00.000 seconds UTC: strictly after now, at most 24 hours
\* ahead, at the configured UTC hour.
C16_NextOccurrenceOfHour ==
  alarmAt # NoAlarm =>
    /\ alarmAt > now
    /\ alarmAt - now <= DayMs
    /\ UTCHours(alarmAt) = summaryTimeHour
    /\ alarmAt % HourMs = 0

\* C19: handling a frame with an opcode outside {0, 1, 10, 11}, or a dispatch
\* that is neither READY nor MESSAGE_CREATE, sends nothing and leaves the
\* transports, the heartbeat timer, the session id, the buffer and the
\* trigger state as they were; only the sequence number may change.
C19_UnknownFrameIgnored ==
  [][(frames'.n = frames.n + 1 /\ IsUnknown(frames'.last)) =>
       UNCHANGED <<ws, sock, isConnecting, heartbeatInterval, sessionId, sent,
                   messageStore, storedMessages, alarmAt, keepAliveAlarm,
                   botEnabled, storedEnabled, testMode, testSummarySent,
                   reconnectAttempts, reconnectTimeout, timers, pending>>]_vars

\* C19's case: an unknown frame was handled and the session went on to
\* handle a MESSAGE_CREATE after it
C19_FrameAfterUnknown ==
  /\ frames.ignored > 0
  /\ frames.last.t = "MESSAGE_CREATE"
  /\ storedMessages # <<>>

\* the persisted events that are inside the retention window at time t
PersistedInWindow(t) ==
  {storedMessages[i] : i \in {j \in 1..Len(storedMessages) :
                                storedMessages[j].timestamp >= t - IntervalMs}}

\* C18: a write of 'messages' keeps every event that was persisted before it
\* and is still inside the retention window, also when the object was
\* re-constructed since that event was persisted.
C18_PersistedHistoryKept ==
  [][storedMessages' # storedMessages =>
       PersistedInWindow(now') \subseteq
         {storedMessages'[i] : i \in 1..Len(storedMessages')}]_vars

\* the session should be active and is down: the transport has closed or the
\* attempt has failed, and no connectToGateway call is suspended on its fetch
Down ==
  /\ ws = 0
  /\ pending = <<>>
  /\ IF variant = "keepalive"
     THEN botEnabled /\ storedEnabled
     ELSE reconnectAttempts > 0

\* a connectToGateway call has passed its guards and asked for the gateway URL
Attempting == pending # <<>>

\* C17: whenever the transport has closed or a connection attempt has failed
\* while the session should remain active, a new connection attempt is
\* eventually made, alarms and timers firing fairly, in both variants.
C17_EventuallyReconnects == Down ~> Attempting

\* C21: pruning is idempotent: with the same now and window, a second
\* application of the pruning step (the gateway worker's filter, the local
\* bot's head shifting) leaves the buffer the first application left.
C21_PruneIdempotent ==
  calc.n >= 2 => calc.buf = calc.once

\* C21's case: the head-shifting prune was applied twice to a buffer from
\* which it removed an event and in which it left an expired one
C21_ShiftedTwice ==
  /\ calc.op = "shift"
  /\ calc.n = 2
  /\ calc.once # calc.input
  /\ \E i \in 1..Len(calc.once) : calc.once[i].timestamp < now - IntervalMs

\* the text with every line longer than MaxLength cut to its first
\* MaxLength - 3 characters plus '...'
WithLongLinesCut(text) ==
  LET lines == SplitLines(text)
  IN JoinLines([i \in 1..Len(lines) |->
                  IF StrLen(lines[i]) > MaxLength
                  THEN Cat(Substring0(lines[i], MaxLength - 3), Ellipsis)
                  ELSE lines[i]])

\* C22: the chunks of a digest text, concatenated with a newline at each
\* chunk boundary, give back the text, lines longer than MaxLength cut: no
\* line, blank line or whitespace is lost or added, the order is kept.
C22_ChunksRejoinToText ==
  chunker # "none" => JoinLines(chunks) = WithLongLinesCut(content)

\* the MESSAGE_CREATE the handler has taken last
LastDispatch == IF variant = "local" THEN hist.lastDispatch ELSE frames.last.d

\* C23: an event of a bot author or of another channel is rejected when it is
\* recorded: the buffer and the persisted store hold events of the source
\* channel only, a step that handles such a dispatch leaves both unchanged,
\* and an event enters the buffer only in a step that handles a dispatch of
\* the source channel by a non-bot author
C23_RejectedAtRecordTime ==
  [][LET d == LastDispatch'
         handled == \/ variant = "local" /\ hist'.lastDispatch # hist.lastDispatch
                    \/ variant = "keepalive" /\ frames'.n # frames.n
                         /\ frames'.last.t = "MESSAGE_CREATE"
     IN /\ \A i \in 1..Len(messageStore') : messageStore'[i].channelId = SourceChannel
        /\ \A i \in 1..Len(storedMessages') :
              storedMessages'[i].channelId = SourceChannel
        /\ handled /\ (d.channel # SourceChannel \/ d.bot)
             => UNCHANGED <<messageStore, storedMessages>>
        /\ \A i \in 1..Len(messageStore') :
              (\A j \in 1..Len(messageStore) : messageStore[j] # messageStore'[i])
                => handled /\ ~d.bot /\ d.channel = SourceChannel
                     /\ d.id = messageStore'[i].id]_vars

\* a bot's message of the source channel has been handled while the buffer
\* holds an event
C23_BotDispatchHandled ==
  /\ LastDispatch.bot
  /\ LastDispatch.channel = SourceChannel
  /\ messageStore # <<>>
\* C24: the footer of every rendered digest over n events ends with
\* "1 message" when n = 1 and with "n messages" for every other n, whichever
\* renderer made it
C24_FooterPluralized ==
  calc.op = "render" =>
    /\ calc.footer.count = Len(calc.input)
    /\ calc.footer.noun = (IF Len(calc.input) = 1 THEN "message" ELSE "messages")

\* C25: the lines of every rendered digest are ascending by timestamp,
\* whatever the order of the events in the buffer
C25_LinesChronological ==
  calc.op = "render" =>
    \A i, j \in 1..Len(calc.lines) :
       i < j => calc.lines[i].timestamp <= calc.lines[j].timestamp
\* C26: whenever the heartbeat interval timer is armed, the session has a
\* transport, and that transport is open: not closed, not stopped, not
\* superseded
C26_HeartbeatOnlyOnLiveTransport == heartbeatInterval => ws # 0 /\ IsOpen(ws)
\* C30: in the backoff variant at most one reconnect timer is pending at any
\* time
C30_OneReconnectTimer == variant = "backoff" => Cardinality(timers) <= 1
\* the frame sent last, if any
LastSent == IF sent = <<>> THEN [on |-> 0, op |-> Null, d |-> Null] ELSE sent[Len(sent)]

\* C27: handling a heartbeat-request frame (op 1) while the transport is open
\* sends exactly one heartbeat (op 1) on it, in the step that handles the
\* frame, and leaves the heartbeat timer as it was
C27_HeartbeatOnRequest ==
  [][(frames'.n = frames.n + 1 /\ frames'.last.op = 1 /\ ws # 0 /\ IsOpen(ws)) =>
       /\ Len(sent') = Len(sent) + 1
       /\ SubSeq(sent', 1, Len(sent)) = sent
       /\ LastSent'.op = 1
       /\ LastSent'.on = ws
       /\ UNCHANGED heartbeatInterval]_vars

\* C27's case: the frame handled last is a heartbeat request, the heartbeat
\* timer is armed and the heartbeat has gone out on the open transport
C27_RequestAnswered ==
  /\ frames.last.op = 1
  /\ heartbeatInterval
  /\ ws # 0 /\ IsOpen(ws)
  /\ LastSent.op = 1

\* C28: every heartbeat sent carries the sequence number of the latest inbound
\* frame that carried one, null if none has, and a frame whose s is null or
\* absent leaves the stored sequence number unchanged
C28_HeartbeatCarriesLatestSeq ==
  [][/\ (sent' # sent /\ LastSent'.op = 1) => LastSent'.d = frames'.seq
     /\ (frames'.n = frames.n + 1 /\ frames'.last.s \in {Null, Absent})
          => UNCHANGED sequenceNumber]_vars
\* C29: once a digest has been made of the buffer, the events it listed are
\* no longer in the buffer
C29_ListedEventsRemoved ==
  [][hist'.lastSummary # hist.lastSummary =>
       \A i \in 1..Len(messageStore'), j \in 1..Len(hist'.lastSummary.listed) :
          messageStore'[i] # hist'.lastSummary.listed[j]]_vars
\* C31: when a /stop request on the keep-alive worker completes, no alarm is
\* armed, whichever operation armed the one there was
C31_StopCancelsAlarm == [][StopKA => alarmAt' = NoAlarm]_vars
\* C32: while the keep-alive bot is enabled and has not been stopped since
\* /start completed, an alarm is armed, and no more than 30 seconds ahead
C32_AlarmWithinKeepAlive ==
  (variant = "keepalive" /\ botEnabled /\ ~testMode /\ ~hist.stopped /\ pending = <<>>) =>
    (alarmAt # NoAlarm /\ alarmAt <= now + KeepAliveMs)
\* the lines of a text that are not empty
NonEmptyLines(text) == SelectSeq(SplitLines(text), LAMBDA l : l # EmptyStr)

RECURSIVE ChunkLines(_)
\* the non-empty lines of the chunks, chunk after chunk
ChunkLines(cs) ==
  IF cs = <<>> THEN <<>> ELSE NonEmptyLines(cs[1]) \o ChunkLines(Tail(cs))

\* the text has a line longer than MaxLength
HasLongLine(text) ==
  \E i \in 1..Len(SplitLines(text)) : StrLen(SplitLines(text)[i]) > MaxLength

\* C33: a line longer than 2000 is cut to its first 1997 characters plus
\* '...', is a chunk of its own, and the non-empty lines before and after it
\* are emitted in their order
C33_LongLineCutAlone ==
  (chunker # "none" /\ HasLongLine(content)) =>
    LET lines == NonEmptyLines(content)
        expected == [i \in 1..Len(lines) |->
                       IF StrLen(lines[i]) > MaxLength
                       THEN Substring0(lines[i], 1997) \o Ellipsis
                       ELSE lines[i]]
    IN /\ ChunkLines(chunks) = expected
       /\ \A k \in 1..Len(chunks) :
            \A j \in 1..Len(SplitLines(chunks[k])) :
               LET l == SplitLines(chunks[k])[j]
               IN (l # EmptyStr /\ l[Len(l)][1] = DOT) =>
                    (chunks[k] = l /\ StrLen(l) = 2000)

\* C34: in every renderer a content longer than 100 characters is shown cut
\* to 100 characters with '...' (the marker within the 100 or after them), a
\* content that is empty after trimming is shown as the placeholder, and any
\* other content is shown unchanged
C34_ContentTruncated ==
  calc.op = "line" =>
    IF Trim(calc.text) = EmptyStr
    THEN calc.display \in {Placeholder, PollingPlaceholder}
    ELSE IF StrLen(calc.text) > 100
    THEN \/ calc.display = Substring0(calc.text, 97) \o Ellipsis
         \/ calc.display = Substring0(calc.text, 100) \o Ellipsis
    ELSE calc.display = calc.text
\* C35: a close event of a transport that is not the current one leaves the
\* reference to the current transport and the heartbeat timer as they were
C35_StaleCloseIgnored ==
  [][\A s \in Sockets :
       (ws # 0 /\ s # ws /\ SockCloseKA(s))
         => UNCHANGED <<ws, heartbeatInterval>>]_vars
\* C36: whenever the keep-alive bot is disabled and no request is being
\* served, no transport is live and no heartbeat timer is armed
C36_DisabledMeansDisconnected ==
  (variant = "keepalive" /\ ~botEnabled /\ pending = <<>>) =>
    (~heartbeatInterval /\ \A s \in Sockets : ~IsOpen(s))
\* C37: isConnecting is true only while an attempt is in progress:
\* connectToGateway is suspended on its fetch, or the transport it created
\* has not opened yet
C37_InFlightFlagTruthful ==
  isConnecting => (pending # <<>> \/ (ws # 0 /\ sock[ws] = "connecting"))
\* C38: no two entries of messageStore, in memory or persisted, have the
\* same event id
C38_StoredAtMostOnce ==
  /\ \A i, j \in 1..Len(messageStore) : i # j => messageStore[i].id # messageStore[j].id
  /\ \A i, j \in 1..Len(storedMessages) :
        i # j => storedMessages[i].id # storedMessages[j].id
\* C39: every frame sent, heartbeat or identify, goes out on the current
\* WebSocket and only while it exists and is open; otherwise nothing is sent
C39_SendsOnlyOnOpenTransport ==
  [][\A k \in (Len(sent) + 1)..Len(sent') :
       /\ ws # 0
       /\ IsOpen(ws)
       /\ sent'[k].on = ws]_vars

\* C39's case: after frames were sent the bot was stopped, and the heartbeat
\* timer is armed while there is no current transport
C39_TimerArmedWithoutTransport ==
  /\ sent # <<>>
  /\ hist.stopped
  /\ heartbeatInterval
  /\ ws = 0
\* C40: the local bot's head shifting leaves the buffer that the gateway
\* worker's filter leaves, whatever the order of the timestamps in the buffer
C40_ShiftEqualsFilter ==
  (calc.op = "shift" /\ calc.n >= 1) =>
    calc.once = SelectSeq(calc.input, LAMBDA e : e.timestamp >= now - IntervalMs)
====
